---- MODULE Spec2Model ----
(***************************************************************************)
(* A model of go-transmission: the RPC client of status.go (the Status     *)
(* predicate, the command constructors, ExecuteCommand / sendCommand and   *)
(* the public operations built on them) on top of the Transport            *)
(* (ApiClient.Post) with its session-token handshake.                      *)
(*                                                                         *)
(* The client is synchronous: one public operation runs at a time.  The    *)
(* model stops an operation only where the program waits for the daemon:   *)
(* pc = "await1" after the first attempt of a Post, pc = "await2" after    *)
(* the retry.  Everything the operation does between two waits is one      *)
(* step.                                                                   *)
(***************************************************************************)
EXTENDS Integers, Sequences, FiniteSets, TLC

VARIABLES
    created,    \* the client instances New has built
    token,      \* ApiClient.token of every client: the Transport's state
    sortType,   \* the package variable sortType
    pc,         \* "idle", "await1" (first attempt sent), "await2" (retry sent)
    frame,      \* the running (or last) public operation and its locals
    sent,       \* the HTTP requests the running (or last) operation has sent
    answers,    \* the daemon's answers in the last Post call that got any
    posted,     \* what the last Post call that has returned returned
    ret         \* what the last finished operation returned

vars == <<created, token, sortType, pc, frame, sent, answers, posted, ret>>

----------------------------------------------------------------------------
(* Bounds of the model.                                                    *)

\* longest torrent list the daemon returns
MaxLen == 2
\* longest byte string handed to an add constructor
MaxBytes == 3

----------------------------------------------------------------------------
(* Status (status.go, lines 3-43).                                         *)

TrStopped == 0
TrCheckPending == 1
TrChecking == 2
TrDownloadPending == 3
TrDownloading == 4
TrSeedPending == 5
TrSeeding == 6

\* Status is an int: values outside the seven constants exist as well.
StatusValues == (0 - 2) .. 9

IsStartedNoSeeding(ts) ==
    \/ ts = TrChecking
    \/ ts = TrDownloadPending
    \/ ts = TrDownloading
    \/ ts = TrSeedPending

IsStarted(ts) ==
    \/ ts = TrChecking
    \/ ts = TrDownloadPending
    \/ ts = TrDownloading
    \/ ts = TrSeedPending
    \/ ts = TrSeeding

----------------------------------------------------------------------------
(* Errors.  nil is "nil"; the others are distinct error values.            *)

nil == "nil"
ErrNoTorrent == "ErrNoTorrent"
\* json.Marshal's error, json.Unmarshal's error, ioutil.ReadFile's error
ErrMarshal == "ErrMarshal"
ErrUnmarshal == "ErrUnmarshal"
ErrReadFile == "ErrReadFile"
\* what Post returns when the call fails
TransportError == "TransportError"

----------------------------------------------------------------------------
(* Strings that are ordered are sequences of letters (small integers);     *)
(* the empty string is << >>.                                              *)

RECURSIVE StrLess(_, _)
StrLess(a, b) ==
    IF b = << >> THEN FALSE
    ELSE IF a = << >> THEN TRUE
    ELSE IF Head(a) # Head(b) THEN Head(a) < Head(b)
    ELSE StrLess(Tail(a), Tail(b))

----------------------------------------------------------------------------
(* Torrent, TorrentAdded, Stats, Command (status.go, lines 67-234).        *)
(* A float is [nan, v]: v is the value as a scaled integer (PercentDone    *)
(* in 1/100, UploadRatio in 1/1000), nan marks a NaN, which json.Marshal   *)
(* refuses to encode and which no JSON text decodes to.                    *)

Num(x) == [nan |-> FALSE, v |-> x]
NaN == [nan |-> TRUE, v |-> 0]

ZeroTorrent ==
    [ID |-> 0, Name |-> << >>, InfoHash |-> "", Status |-> 0, AddedDate |-> 0,
     TotalSize |-> 0, PercentDone |-> Num(0), RateDownload |-> 0,
     RateUpload |-> 0, DownloadedEver |-> 0, UploadedEver |-> 0,
     UploadRatio |-> Num(0)]

ZeroTorrentAdded == [HashString |-> "", ID |-> 0, Name |-> << >>]

ZeroStatBlock ==
    [DownloadedBytes |-> 0, FilesAdded |-> 0, SecondsActive |-> 0,
     SessionCount |-> 0, UploadedBytes |-> 0]

ZeroArguments ==
    [Fields |-> << >>, Torrents |-> << >>, Ids |-> << >>, DeleteData |-> FALSE,
     DownloadDir |-> "", MetaInfo |-> << >>, Filename |-> "",
     TorrentAdded |-> ZeroTorrentAdded, TorrentDuplicate |-> ZeroTorrentAdded,
     ActiveTorrentCount |-> 0, CumulativeStats |-> ZeroStatBlock,
     CurrentStats |-> ZeroStatBlock, DownloadSpeed |-> 0,
     PausedTorrentCount |-> 0, TorrentCount |-> 0, UploadSpeed |-> 0,
     Version |-> ""]

ZeroCommand == [Method |-> "", Arguments |-> ZeroArguments, Result |-> ""]

----------------------------------------------------------------------------
(* encoding/base64, StdEncoding: three bytes make four symbols of six      *)
(* bits; a last group of one or two bytes is padded with '='.  A symbol    *)
(* is its index in the alphabet, Pad stands for '='.                       *)

Pad == 64

RECURSIVE EncodeToString(_)
EncodeToString(b) ==
    IF Len(b) = 0 THEN << >>
    ELSE IF Len(b) = 1 THEN
        << b[1] \div 4, (b[1] % 4) * 16, Pad, Pad >>
    ELSE IF Len(b) = 2 THEN
        << b[1] \div 4, (b[1] % 4) * 16 + (b[2] \div 16), (b[2] % 16) * 4, Pad >>
    ELSE
        << b[1] \div 4, (b[1] % 4) * 16 + (b[2] \div 16),
           (b[2] % 16) * 4 + (b[3] \div 64), b[3] % 64 >>
        \o EncodeToString(SubSeq(b, 4, Len(b)))

----------------------------------------------------------------------------
(* encoding/json on Command, by the struct tags of status.go, lines 67-93. *)
(* A body is [kind, keys, cmd]: kind "json" is a well-formed envelope,     *)
(* kind "mistyped" is JSON with a value of the wrong type somewhere (the   *)
(* decoder fills the fields it can and reports an error), kind "text" is   *)
(* not JSON at all.  keys are the member names present in the text; cmd    *)
(* holds their values.                                                     *)

OmitEmptyKeys(cmd) ==
    {k \in {"method", "result", "fields", "torrents", "ids",
             "delete-local-data", "download-dir", "metainfo", "filename"} :
        CASE k = "method" -> cmd.Method = ""
          [] k = "result" -> cmd.Result = ""
          [] k = "fields" -> Len(cmd.Arguments.Fields) = 0
          [] k = "torrents" -> Len(cmd.Arguments.Torrents) = 0
          [] k = "ids" -> Len(cmd.Arguments.Ids) = 0
          [] k = "delete-local-data" -> ~cmd.Arguments.DeleteData
          [] k = "download-dir" -> cmd.Arguments.DownloadDir = ""
          [] k = "metainfo" -> Len(cmd.Arguments.MetaInfo) = 0
          [] k = "filename" -> cmd.Arguments.Filename = ""}

AllKeys ==
    {"method", "result", "fields", "torrents", "ids", "delete-local-data",
     "download-dir", "metainfo", "filename", "torrent-added",
     "torrent-duplicate", "activeTorrentCount", "cumulative-stats",
     "current-stats", "downloadSpeed", "pausedTorrentCount", "torrentCount",
     "uploadSpeed", "version"}

NoBody == [kind |-> "text", keys |-> {}, cmd |-> ZeroCommand]

Unencodable(cmd) ==
    \E i \in 1 .. Len(cmd.Arguments.Torrents) :
        \/ cmd.Arguments.Torrents[i].UploadRatio.nan
        \/ cmd.Arguments.Torrents[i].PercentDone.nan

Marshal(cmd) ==
    IF Unencodable(cmd)
    THEN [body |-> NoBody, err |-> ErrMarshal]
    ELSE [body |-> [kind |-> "json", keys |-> AllKeys \ OmitEmptyKeys(cmd),
                    cmd |-> cmd],
          err |-> nil]

\* The fields the decoder sets: those whose member is in the text.
Decoded(b) ==
    LET a == b.cmd.Arguments
        z == ZeroArguments
        pick(k, x, y) == IF k \in b.keys THEN x ELSE y
    IN  [Method |-> pick("method", b.cmd.Method, ""),
         Result |-> pick("result", b.cmd.Result, ""),
         Arguments |->
           [Fields |-> pick("fields", a.Fields, z.Fields),
            Torrents |-> pick("torrents", a.Torrents, z.Torrents),
            Ids |-> pick("ids", a.Ids, z.Ids),
            DeleteData |-> pick("delete-local-data", a.DeleteData, z.DeleteData),
            DownloadDir |-> pick("download-dir", a.DownloadDir, z.DownloadDir),
            MetaInfo |-> pick("metainfo", a.MetaInfo, z.MetaInfo),
            Filename |-> pick("filename", a.Filename, z.Filename),
            TorrentAdded |-> pick("torrent-added", a.TorrentAdded, z.TorrentAdded),
            TorrentDuplicate |->
                pick("torrent-duplicate", a.TorrentDuplicate, z.TorrentDuplicate),
            ActiveTorrentCount |->
                pick("activeTorrentCount", a.ActiveTorrentCount, 0),
            CumulativeStats |->
                pick("cumulative-stats", a.CumulativeStats, ZeroStatBlock),
            CurrentStats |-> pick("current-stats", a.CurrentStats, ZeroStatBlock),
            DownloadSpeed |-> pick("downloadSpeed", a.DownloadSpeed, 0),
            PausedTorrentCount |->
                pick("pausedTorrentCount", a.PausedTorrentCount, 0),
            TorrentCount |-> pick("torrentCount", a.TorrentCount, 0),
            UploadSpeed |-> pick("uploadSpeed", a.UploadSpeed, 0),
            Version |-> pick("version", a.Version, "")]]

Unmarshal(b) ==
    IF b.kind = "json" THEN [val |-> Decoded(b), err |-> nil]
    ELSE IF b.kind = "mistyped" THEN [val |-> Decoded(b), err |-> ErrUnmarshal]
    ELSE [val |-> ZeroCommand, err |-> ErrUnmarshal]

----------------------------------------------------------------------------
(* Torrents.GetIDs and the sort modes.                                     *)

GetIDsSkipFirst(t) ==
    IF Len(t) <= 1 THEN << >> ELSE [i \in 1 .. Len(t) - 1 |-> t[i + 1].InfoHash]

GetIDs(t) == [i \in 1 .. Len(t) |-> t[i].InfoHash]

SortModes ==
    {"SortID", "SortRevID", "SortName", "SortRevName", "SortAge", "SortRevAge",
     "SortSize", "SortRevSize", "SortProgress", "SortRevProgress",
     "SortDownSpeed", "SortRevDownSpeed", "SortUpSpeed", "SortRevUpSpeed",
     "SortDownloaded", "SortRevDownloaded", "SortUploaded", "SortRevUploaded",
     "SortRatio", "SortRevRatio"}

\* The comparison of each sort method: is a before b by this key?
KeyLess(key, a, b) ==
    CASE key = "ID" -> a.ID < b.ID
      [] key = "Name" -> StrLess(a.Name, b.Name)
      [] key = "Age" -> a.AddedDate < b.AddedDate
      [] key = "Size" -> a.TotalSize < b.TotalSize
      [] key = "Progress" -> a.PercentDone.v < b.PercentDone.v
      [] key = "DownSpeed" -> a.RateDownload < b.RateDownload
      [] key = "UpSpeed" -> a.RateUpload < b.RateUpload
      [] key = "Downloaded" -> a.DownloadedEver < b.DownloadedEver
      [] key = "Uploaded" -> a.UploadedEver < b.UploadedEver
      [] key = "Ratio" -> a.UploadRatio.v < b.UploadRatio.v

\* The rearrangements of a list.
Arrangements(t) ==
    {[i \in 1 .. Len(t) |-> t[f[i]]] : f \in Permutations(1 .. Len(t))}

\* torrents.SortX(reverse): a comparison sort that is not stable, so every
\* arrangement that puts no element before one it is greater than is a
\* possible result.
SortBy(key, reverse, t) ==
    {p \in Arrangements(t) :
        \A i, j \in 1 .. Len(p) :
            i < j => IF reverse THEN ~KeyLess(key, p[i], p[j])
                                ELSE ~KeyLess(key, p[j], p[i])}

----------------------------------------------------------------------------
(* Command constructors (status.go, lines 493-626).                        *)

TorrentFields ==
    << "id", "name", "hashString", "status", "addedDate", "startDate",
       "doneDate", "leftUntilDone", "sizeWhenDone", "haveValid",
       "haveUnchecked", "isFinished", "percentDone", "eta", "rateDownload",
       "rateUpload", "downloadDir", "downloadedEver", "uploadRatio",
       "uploadedEver", "seedRatioMode", "error", "errorString", "files",
       "peers", "trackers", "trackerStats", "totalSize", "secondsDownloading",
       "secondsSeeding" >>

NewGetTorrentsCmd ==
    [ZeroCommand EXCEPT !.Method = "torrent-get",
                        !.Arguments.Fields = TorrentFields]

NewAddCmd == [ZeroCommand EXCEPT !.Method = "torrent-add"]

NewAddCmdByURL(url) == [NewAddCmd EXCEPT !.Arguments.Filename = url]

NewAddCmdByFilename(filename) ==
    [NewAddCmd EXCEPT !.Arguments.Filename = filename]

\* read is what ioutil.ReadFile(file) returns: [data, err]
NewAddCmdByFileRaw(read) ==
    IF read.err # nil
    THEN [cmd |-> ZeroCommand, isNil |-> TRUE, err |-> read.err]
    ELSE [cmd |-> [NewAddCmd EXCEPT !.Arguments.MetaInfo = read.data],
          isNil |-> FALSE, err |-> nil]

NewAddCmdByFile(read) ==
    IF read.err # nil
    THEN [cmd |-> ZeroCommand, isNil |-> TRUE, err |-> read.err]
    ELSE [cmd |-> [NewAddCmd EXCEPT
                      !.Arguments.MetaInfo = EncodeToString(read.data)],
          isNil |-> FALSE, err |-> nil]

NewAddCmdByBytes(b) ==
    [cmd |-> [NewAddCmd EXCEPT !.Arguments.MetaInfo = EncodeToString(b)],
     isNil |-> FALSE, err |-> nil]

SetDownloadDir(cmd, dir) == [cmd EXCEPT !.Arguments.DownloadDir = dir]

newDelCmd(id, removeFile) ==
    [ZeroCommand EXCEPT !.Method = "torrent-remove",
                        !.Arguments.Ids = << id >>,
                        !.Arguments.DeleteData = removeFile]

----------------------------------------------------------------------------
(* The daemon and the callers: the inputs of the model.                    *)

Clients == {"c1", "c2"}
NoToken == ""
Tokens == {"t1", "t2"}

T1 ==
    [ID |-> 1, Name |-> << 2 >>, InfoHash |-> "h1", Status |-> TrDownloading,
     AddedDate |-> 30, TotalSize |-> 20, PercentDone |-> Num(50),
     RateDownload |-> 7, RateUpload |-> 0, DownloadedEver |-> 10,
     UploadedEver |-> 5, UploadRatio |-> Num(500)]
T2 ==
    [ID |-> 2, Name |-> << 2, 1 >>, InfoHash |-> "h2", Status |-> TrSeeding,
     AddedDate |-> 10, TotalSize |-> 20, PercentDone |-> Num(100),
     RateDownload |-> 0, RateUpload |-> 3, DownloadedEver |-> 20,
     UploadedEver |-> 60, UploadRatio |-> Num(3000)]
T3 ==
    [ID |-> 3, Name |-> << 1 >>, InfoHash |-> "h3", Status |-> TrStopped,
     AddedDate |-> 20, TotalSize |-> 5, PercentDone |-> Num(50),
     RateDownload |-> 0, RateUpload |-> 0, DownloadedEver |-> 0,
     UploadedEver |-> 0, UploadRatio |-> Num(0 - 1000)]

SomeTorrents == {T1, T2, T3}

SeqsUpTo(S, n) == UNION {[1 .. k -> S] : k \in 0 .. n}

TorrentLists == SeqsUpTo(SomeTorrents, MaxLen)

D1 == [HashString |-> "h1", ID |-> 1, Name |-> << 2 >>]
D2 == [HashString |-> "h2", ID |-> 2, Name |-> << 2, 1 >>]
\* a descriptor without a hash: not the zero descriptor, but no duplicate
D0 == [HashString |-> "", ID |-> 7, Name |-> << 3 >>]

Json(keys, cmd) == [kind |-> "json", keys |-> keys, cmd |-> cmd]

Success == [ZeroCommand EXCEPT !.Result = "success"]

TorrentBodies ==
    {Json({"result", "torrents"}, [Success EXCEPT !.Arguments.Torrents = l]) :
        l \in TorrentLists}

AddBodies ==
    {Json({"result", "torrent-added", "torrent-duplicate"},
          [Success EXCEPT !.Arguments.TorrentAdded = a,
                          !.Arguments.TorrentDuplicate = d]) :
        a \in {ZeroTorrentAdded, D1}, d \in {ZeroTorrentAdded, D0, D2}}

SessionBody ==
    Json({"result", "version", "torrentCount", "activeTorrentCount",
          "downloadSpeed"},
         [Success EXCEPT !.Arguments.Version = "3.00",
                         !.Arguments.TorrentCount = 3,
                         !.Arguments.ActiveTorrentCount = 2,
                         !.Arguments.DownloadSpeed = 7])

FailureBody == Json({"result"}, [ZeroCommand EXCEPT !.Result = "failure"])

\* JSON whose torrents member has the wrong type: the version is decoded,
\* and the decoder reports the mismatch.
MistypedBody ==
    [kind |-> "mistyped", keys |-> {"result", "version"},
     cmd |-> [Success EXCEPT !.Arguments.Version = "3.00"]]

TextBody == [kind |-> "text", keys |-> {}, cmd |-> ZeroCommand]

SuccessBody == Json({"result"}, Success)

\* The bodies the daemon may answer a method with: the envelope of that
\* method, an envelope that reports a failure, JSON of another shape, or
\* text that is no JSON.
Bodies(method) ==
    {FailureBody, MistypedBody, TextBody} \cup
    CASE method = "torrent-get" -> TorrentBodies
      [] method = "torrent-add" -> AddBodies
      [] method \in {"session-get", "session-stats"} -> {SessionBody}
      [] OTHER -> {SuccessBody}

\* What the daemon answers a request with: 200 with a body, 409 with a
\* session id in the header, or another failure status.
Responses(req) ==
    {[status |-> 200, header |-> NoToken, body |-> b] :
        b \in Bodies(req.body.cmd.Method)}
    \cup {[status |-> 409, header |-> t, body |-> TextBody] : t \in Tokens}
    \cup {[status |-> 500, header |-> NoToken, body |-> TextBody]}

CallerIds == {"h1", "h9"}
IdLists == {<< >>, << "h1" >>, << "h1", "h2" >>}
Strings == {"", "magnet:x", "a.torrent", "http://x/a.torrent"}
Bytes == {0, 77, 128, 255}
ByteStrings == SeqsUpTo(Bytes, MaxBytes)
FileReads ==
    {[data |-> b, err |-> nil] : b \in ByteStrings}
    \cup {[data |-> << >>, err |-> ErrReadFile]}

NaNTorrent == [T1 EXCEPT !.UploadRatio = NaN]

CallerCommands ==
    {NewGetTorrentsCmd,
     [ZeroCommand EXCEPT !.Method = "session-stats"],
     [ZeroCommand EXCEPT !.Method = "torrent-set",
                         !.Arguments.Torrents = << NaNTorrent >>]}

AddCommands ==
    {NewAddCmdByURL("magnet:x"),
     SetDownloadDir(NewAddCmdByBytes(<< 77 >>).cmd, "/d")}

----------------------------------------------------------------------------
(* The Transport: ApiClient.Post, the session-id handshake.                *)

StatusConflict == 409

\* A request as it goes out: which Post call of the operation it belongs
\* to, which attempt of that call it is, the token attached and the body.
Request(call, attempt, tok, body) ==
    [call |-> call, attempt |-> attempt, token |-> tok, body |-> body]

\* Post retries when the answer to its first attempt is 409.
PostRetriesAlways(p, r) == r.status = StatusConflict

PostRetries(p, r) == p = "await1" /\ r.status = StatusConflict

\* The token Post stores from a 409 answer.
TokenKept(old, r) == old

TokenFrom(old, r) == r.header

\* No Post call has returned.
NoPost == [called |-> FALSE, output |-> NoBody, err |-> nil]

\* What Post returns for the answer that ends the call.
PostResult(r) ==
    IF r.status >= 200 /\ r.status <= 299
    THEN [output |-> r.body, err |-> nil]
    ELSE [output |-> NoBody, err |-> TransportError]

----------------------------------------------------------------------------
(* ExecuteCommand and sendCommand (status.go, lines 628-646, 683-699),     *)
(* after Post has returned p = [output, err].                              *)

ExecuteCommandReturn(p) ==
    IF p.err # nil THEN [out |-> ZeroCommand, err |-> p.err]
    ELSE LET u == Unmarshal(p.output) IN [out |-> u.val, err |-> u.err]

sendCommandReturn(p) ==
    IF p.err # nil THEN [out |-> ZeroCommand, err |-> p.err]
    ELSE LET u == Unmarshal(p.output) IN [out |-> u.val, err |-> u.err]

\* Both return before Post when json.Marshal fails.
MarshalFailed(m) == [out |-> ZeroCommand, err |-> m.err]

----------------------------------------------------------------------------
(* The public operations, after ExecuteCommand / sendCommand has returned  *)
(* res = [out, err].                                                       *)

ZeroStats ==
    [ActiveTorrentCount |-> 0, CumulativeStats |-> ZeroStatBlock,
     CurrentStats |-> ZeroStatBlock, DownloadSpeed |-> 0,
     PausedTorrentCount |-> 0, TorrentCount |-> 0, UploadSpeed |-> 0]

\* What an operation returns: err, and the value in the field of its kind.
NoRet ==
    [op |-> "", client |-> "", err |-> nil, torrents |-> << >>,
     torrent |-> ZeroTorrent, name |-> << >>, added |-> ZeroTorrentAdded,
     stats |-> ZeroStats, statsNil |-> TRUE, result |-> "", version |-> "",
     cmd |-> ZeroCommand, cmdNil |-> TRUE, started |-> FALSE, status |-> 0,
     bytes |-> << >>, text |-> ""]

\* The switch of GetTorrents.
SortedTorrentsNameForward(torrents, st) ==
    CASE st = "SortID" -> {torrents}
      [] st = "SortRevID" -> SortBy("ID", TRUE, torrents)
      [] st = "SortName" -> SortBy("Name", FALSE, torrents)
      [] st = "SortRevName" -> SortBy("Name", FALSE, torrents)
      [] st = "SortAge" -> SortBy("Age", FALSE, torrents)
      [] st = "SortRevAge" -> SortBy("Age", TRUE, torrents)
      [] st = "SortSize" -> SortBy("Size", FALSE, torrents)
      [] st = "SortRevSize" -> SortBy("Size", TRUE, torrents)
      [] st = "SortProgress" -> SortBy("Progress", FALSE, torrents)
      [] st = "SortRevProgress" -> SortBy("Progress", TRUE, torrents)
      [] st = "SortDownSpeed" -> SortBy("DownSpeed", FALSE, torrents)
      [] st = "SortRevDownSpeed" -> SortBy("DownSpeed", TRUE, torrents)
      [] st = "SortUpSpeed" -> SortBy("UpSpeed", FALSE, torrents)
      [] st = "SortRevUpSpeed" -> SortBy("UpSpeed", TRUE, torrents)
      [] st = "SortDownloaded" -> SortBy("Downloaded", FALSE, torrents)
      [] st = "SortRevDownloaded" -> SortBy("Downloaded", TRUE, torrents)
      [] st = "SortUploaded" -> SortBy("Uploaded", FALSE, torrents)
      [] st = "SortRevUploaded" -> SortBy("Uploaded", TRUE, torrents)
      [] st = "SortRatio" -> SortBy("Ratio", FALSE, torrents)
      [] st = "SortRevRatio" -> SortBy("Ratio", TRUE, torrents)
      [] OTHER -> {torrents}

SortedTorrents(torrents, st) ==
    CASE st = "SortID" -> {torrents}
      [] st = "SortRevID" -> SortBy("ID", TRUE, torrents)
      [] st = "SortName" -> SortBy("Name", FALSE, torrents)
      [] st = "SortRevName" -> SortBy("Name", TRUE, torrents)
      [] st = "SortAge" -> SortBy("Age", FALSE, torrents)
      [] st = "SortRevAge" -> SortBy("Age", TRUE, torrents)
      [] st = "SortSize" -> SortBy("Size", FALSE, torrents)
      [] st = "SortRevSize" -> SortBy("Size", TRUE, torrents)
      [] st = "SortProgress" -> SortBy("Progress", FALSE, torrents)
      [] st = "SortRevProgress" -> SortBy("Progress", TRUE, torrents)
      [] st = "SortDownSpeed" -> SortBy("DownSpeed", FALSE, torrents)
      [] st = "SortRevDownSpeed" -> SortBy("DownSpeed", TRUE, torrents)
      [] st = "SortUpSpeed" -> SortBy("UpSpeed", FALSE, torrents)
      [] st = "SortRevUpSpeed" -> SortBy("UpSpeed", TRUE, torrents)
      [] st = "SortDownloaded" -> SortBy("Downloaded", FALSE, torrents)
      [] st = "SortRevDownloaded" -> SortBy("Downloaded", TRUE, torrents)
      [] st = "SortUploaded" -> SortBy("Uploaded", FALSE, torrents)
      [] st = "SortRevUploaded" -> SortBy("Uploaded", TRUE, torrents)
      [] st = "SortRatio" -> SortBy("Ratio", FALSE, torrents)
      [] st = "SortRevRatio" -> SortBy("Ratio", TRUE, torrents)
      [] OTHER -> {torrents}

\* GetTorrents, lines 320-370: the possible (torrents, err).
GetTorrentsReturn(res, st) ==
    IF res.err # nil THEN {[torrents |-> << >>, err |-> res.err]}
    ELSE {[torrents |-> t, err |-> nil] :
            t \in SortedTorrents(res.out.Arguments.Torrents, st)}

\* GetTorrent, lines 379-386: (torrent, err).
GetTorrentReturnLast(res) ==
    IF res.err # nil THEN [torrent |-> ZeroTorrent, err |-> res.err]
    ELSE IF Len(res.out.Arguments.Torrents) > 0
    THEN [torrent |-> res.out.Arguments.Torrents[Len(res.out.Arguments.Torrents)],
          err |-> nil]
    ELSE [torrent |-> ZeroTorrent, err |-> ErrNoTorrent]

GetTorrentReturn(res) ==
    IF res.err # nil THEN [torrent |-> ZeroTorrent, err |-> res.err]
    ELSE IF Len(res.out.Arguments.Torrents) > 0
    THEN [torrent |-> res.out.Arguments.Torrents[1], err |-> nil]
    ELSE [torrent |-> ZeroTorrent, err |-> ErrNoTorrent]

\* ExecuteAddCommand, lines 650-656: (TorrentAdded, err).
ExecuteAddCommandReturnAdded(res) ==
    IF res.err # nil THEN [added |-> ZeroTorrentAdded, err |-> res.err]
    ELSE [added |-> res.out.Arguments.TorrentAdded, err |-> nil]

ExecuteAddCommandReturn(res) ==
    IF res.err # nil THEN [added |-> ZeroTorrentAdded, err |-> res.err]
    ELSE IF res.out.Arguments.TorrentDuplicate.HashString # ""
    THEN [added |-> res.out.Arguments.TorrentDuplicate, err |-> nil]
    ELSE [added |-> res.out.Arguments.TorrentAdded, err |-> nil]

\* GetStats, lines 414-426: (*Stats, err).
GetStatsReturn(res) ==
    IF res.err # nil THEN [stats |-> ZeroStats, statsNil |-> TRUE, err |-> res.err]
    ELSE [stats |->
            [ActiveTorrentCount |-> res.out.Arguments.ActiveTorrentCount,
             CumulativeStats |-> res.out.Arguments.CumulativeStats,
             CurrentStats |-> res.out.Arguments.CurrentStats,
             DownloadSpeed |-> res.out.Arguments.DownloadSpeed,
             PausedTorrentCount |-> res.out.Arguments.PausedTorrentCount,
             TorrentCount |-> res.out.Arguments.TorrentCount,
             UploadSpeed |-> res.out.Arguments.UploadSpeed],
          statsNil |-> FALSE, err |-> nil]

\* Version, lines 672-673: the error of sendCommand is dropped.
VersionReturn(res) == [version |-> res.out.Arguments.Version]

\* sendSimpleCommand, lines 679-680: (result, err).
sendSimpleCommandReturn(res) == [result |-> res.out.Result, err |-> res.err]

----------------------------------------------------------------------------
(* A running operation.  frame holds its name, its client, its arguments   *)
(* and locals, the number of Post calls it has made and by which of        *)
(* ExecuteCommand / sendCommand the current one is made.  Each Resume      *)
(* operator is the code of one operation from the return of a command to   *)
(* its own return or to its next command.  invoked counts the invocations  *)
(* of ExecuteCommand / sendCommand the operation has made, refused those   *)
(* that returned because json.Marshal failed.                              *)

Frame(op, c) ==
    [op |-> op, client |-> c, stage |-> 1, calls |-> 0, via |-> "",
     invoked |-> 0, refused |-> 0, id |-> "", withData |-> FALSE, st |-> "", torrent |-> ZeroTorrent,
     torrents |-> << >>]

Return(f, r) ==
    [kind |-> "return", ret |-> [r EXCEPT !.op = f.op, !.client = f.client],
     cmd |-> ZeroCommand, frame |-> f]

Call(f, via, cmd) ==
    [kind |-> "call", ret |-> NoRet, cmd |-> cmd,
     frame |-> [f EXCEPT !.via = via, !.invoked = @ + 1]]

\* New, lines 306-311
NewResume(f, res) == Return(f, [NoRet EXCEPT !.err = res.err])

\* GetTorrents, lines 320-370
GetTorrentsResume(f, res, st) ==
    {Return(f, [NoRet EXCEPT !.torrents = g.torrents, !.err = g.err]) :
        g \in GetTorrentsReturn(res, st)}

\* GetTorrent, lines 379-386
GetTorrentResume(f, res) ==
    LET g == GetTorrentReturn(res)
    IN  Return(f, [NoRet EXCEPT !.torrent = g.torrent, !.err = g.err])

\* DeleteTorrent, lines 392-404
DeleteTorrentResumeNoLookupCheck(f, res) ==
    IF f.stage = 1
    THEN Call([f EXCEPT !.stage = 2, !.torrent = GetTorrentReturn(res).torrent],
              "ExecuteCommand", newDelCmd(f.id, f.withData))
    ELSE IF res.err # nil
         THEN Return(f, [NoRet EXCEPT !.name = << >>, !.err = res.err])
         ELSE Return(f, [NoRet EXCEPT !.name = f.torrent.Name])

DeleteTorrentResume(f, res) ==
    IF f.stage = 1
    THEN LET g == GetTorrentReturn(res)
         IN  IF g.err # nil
             THEN Return(f, [NoRet EXCEPT !.name = << >>, !.err = g.err])
             ELSE Call([f EXCEPT !.stage = 2, !.torrent = g.torrent],
                       "ExecuteCommand", newDelCmd(f.id, f.withData))
    ELSE IF res.err # nil
         THEN Return(f, [NoRet EXCEPT !.name = << >>, !.err = res.err])
         ELSE Return(f, [NoRet EXCEPT !.name = f.torrent.Name])

\* GetStats, lines 413-426
GetStatsResume(f, res) ==
    LET g == GetStatsReturn(res)
    IN  Return(f, [NoRet EXCEPT !.stats = g.stats, !.statsNil = g.statsNil,
                                !.err = g.err])

\* StartTorrent, StopTorrent, VerifyTorrent through sendSimpleCommand
sendSimpleCommandResume(f, res) ==
    LET g == sendSimpleCommandReturn(res)
    IN  Return(f, [NoRet EXCEPT !.result = g.result, !.err = g.err])

\* StartAll, lines 447-457
StartAllResume(f, res, st) ==
    IF f.stage = 1
    THEN {IF g.err # nil
          THEN Return(f, [NoRet EXCEPT !.err = g.err])
          ELSE Call([f EXCEPT !.stage = 2, !.torrents = g.torrents],
                    "sendCommand",
                    [ZeroCommand EXCEPT !.Method = "torrent-start",
                                        !.Arguments.Ids = GetIDs(g.torrents)]) :
            g \in GetTorrentsReturn(res, st)}
    ELSE {Return(f, [NoRet EXCEPT !.err = res.err])}

\* StopAll, lines 463-473
StopAllResume(f, res, st) ==
    IF f.stage = 1
    THEN {IF g.err # nil
          THEN Return(f, [NoRet EXCEPT !.err = g.err])
          ELSE Call([f EXCEPT !.stage = 2, !.torrents = g.torrents],
                    "sendCommand",
                    [ZeroCommand EXCEPT !.Method = "torrent-stop",
                                        !.Arguments.Ids = GetIDs(g.torrents)]) :
            g \in GetTorrentsReturn(res, st)}
    ELSE {Return(f, [NoRet EXCEPT !.err = res.err])}

\* VerifyAll, lines 480-490
VerifyAllResume(f, res, st) ==
    IF f.stage = 1
    THEN {IF g.err # nil
          THEN Return(f, [NoRet EXCEPT !.err = g.err])
          ELSE Call([f EXCEPT !.stage = 2, !.torrents = g.torrents],
                    "sendCommand",
                    [ZeroCommand EXCEPT !.Method = "torrent-verify",
                                        !.Arguments.Ids = GetIDs(g.torrents)]) :
            g \in GetTorrentsReturn(res, st)}
    ELSE {Return(f, [NoRet EXCEPT !.err = res.err])}

\* ExecuteCommand called by the user: (out, err); out is never nil
ExecuteCommandResume(f, res) ==
    Return(f, [NoRet EXCEPT !.cmd = res.out, !.cmdNil = FALSE, !.err = res.err])

\* ExecuteAddCommand, lines 650-656
ExecuteAddCommandResume(f, res) ==
    LET g == ExecuteAddCommandReturn(res)
    IN  Return(f, [NoRet EXCEPT !.added = g.added, !.err = g.err])

\* Version, lines 672-673: it has no error to return
VersionResume(f, res) ==
    Return(f, [NoRet EXCEPT !.version = VersionReturn(res).version])

\* What the running operation does when its command has returned res.
Continue(f, res, st) ==
    CASE f.op = "New" -> {NewResume(f, res)}
      [] f.op = "GetTorrents" -> GetTorrentsResume(f, res, st)
      [] f.op = "GetTorrent" -> {GetTorrentResume(f, res)}
      [] f.op = "DeleteTorrent" -> {DeleteTorrentResume(f, res)}
      [] f.op = "GetStats" -> {GetStatsResume(f, res)}
      [] f.op \in {"StartTorrent", "StopTorrent", "VerifyTorrent"} ->
            {sendSimpleCommandResume(f, res)}
      [] f.op = "StartAll" -> StartAllResume(f, res, st)
      [] f.op = "StopAll" -> StopAllResume(f, res, st)
      [] f.op = "VerifyAll" -> VerifyAllResume(f, res, st)
      [] f.op = "ExecuteCommand" -> {ExecuteCommandResume(f, res)}
      [] f.op = "ExecuteAddCommand" -> {ExecuteAddCommandResume(f, res)}
      [] f.op = "Version" -> {VersionResume(f, res)}

\* An operation runs until it returns or until a request has to go out:
\* ExecuteCommand and sendCommand return at once when json.Marshal fails.
RECURSIVE Stops(_, _)

\* Stops without the return on the error of json.Marshal: the body that
\* could not be encoded is posted all the same.
StopsPostsUnencoded(e, st) ==
    IF e.kind = "return"
    THEN {[kind |-> "return", ret |-> e.ret, body |-> NoBody, frame |-> e.frame]}
    ELSE LET m == Marshal(e.cmd)
         IN  {[kind |-> "send", ret |-> NoRet, body |-> m.body,
               frame |-> IF m.err = nil THEN e.frame
                         ELSE [e.frame EXCEPT !.refused = @ + 1]]}

Stops(e, st) ==
    IF e.kind = "return"
    THEN {[kind |-> "return", ret |-> e.ret, body |-> NoBody, frame |-> e.frame]}
    ELSE LET m == Marshal(e.cmd)
         IN  IF m.err = nil
             THEN {[kind |-> "send", ret |-> NoRet, body |-> m.body,
                    frame |-> e.frame]}
             ELSE UNION {Stops(e2, st) :
                            e2 \in Continue([e.frame EXCEPT !.refused = @ + 1],
                                            MarshalFailed(m), st)}

\* The step to the stop s, with log the requests sent so far, ans the
\* answers of the last Post call and p what it returned: the first attempt
\* of a Post carries the token the Transport holds.
Apply(s, log, ans, p) ==
    /\ pc' = IF s.kind = "send" THEN "await1" ELSE "idle"
    /\ frame' = IF s.kind = "send" THEN [s.frame EXCEPT !.calls = @ + 1]
                                   ELSE s.frame
    /\ sent' = IF s.kind = "send"
               THEN Append(log, Request(s.frame.calls + 1, 1,
                                        token[s.frame.client], s.body))
               ELSE log
    /\ answers' = ans
    /\ posted' = p
    /\ ret' = s.ret

Begin(e) ==
    /\ pc = "idle"
    /\ \E s \in Stops(e, sortType) : Apply(s, << >>, << >>, NoPost)

----------------------------------------------------------------------------
(* The actions: the public operations, and the daemon's answers.           *)

Init ==
    /\ created = {}
    /\ token = [c \in Clients |-> NoToken]
    /\ sortType = "SortID"
    /\ pc = "idle"
    /\ frame = Frame("", "")
    /\ sent = << >>
    /\ answers = << >>
    /\ posted = NoPost
    /\ ret = NoRet

\* SetSort, line 296
SetSort(c, st) ==
    /\ pc = "idle" /\ c \in created
    /\ sortType' = st
    /\ frame' = [Frame("SetSort", c) EXCEPT !.st = st]
    /\ sent' = << >>
    /\ answers' = << >>
    /\ posted' = NoPost
    /\ ret' = [NoRet EXCEPT !.op = "SetSort", !.client = c]
    /\ UNCHANGED <<created, token, pc>>

\* New, lines 301-306: a new client, whose Transport holds no token
New(c) ==
    /\ c \notin created
    /\ created' = created \cup {c}
    /\ Begin(Call(Frame("New", c), "sendCommand",
                  [ZeroCommand EXCEPT !.Method = "session-get"]))
    /\ UNCHANGED <<token, sortType>>

\* GetTorrents, lines 317-319
GetTorrents(c) ==
    /\ c \in created
    /\ Begin(Call(Frame("GetTorrents", c), "ExecuteCommand", NewGetTorrentsCmd))
    /\ UNCHANGED <<created, token, sortType>>

\* GetTorrent, lines 375-378
GetTorrent(c, id) ==
    /\ c \in created
    /\ Begin(Call([Frame("GetTorrent", c) EXCEPT !.id = id], "ExecuteCommand",
                  [NewGetTorrentsCmd EXCEPT
                      !.Arguments.Ids = Append(@, id)]))
    /\ UNCHANGED <<created, token, sortType>>

\* DeleteTorrent, line 392: the lookup GetTorrent(id)
DeleteTorrent(c, id, withData) ==
    /\ c \in created
    /\ Begin(Call([Frame("DeleteTorrent", c) EXCEPT !.id = id,
                                                    !.withData = withData],
                  "ExecuteCommand",
                  [NewGetTorrentsCmd EXCEPT
                      !.Arguments.Ids = Append(@, id)]))
    /\ UNCHANGED <<created, token, sortType>>

\* GetStats, lines 409-413
GetStats(c) ==
    /\ c \in created
    /\ Begin(Call(Frame("GetStats", c), "ExecuteCommand",
                  [ZeroCommand EXCEPT !.Method = "session-stats"]))
    /\ UNCHANGED <<created, token, sortType>>

\* sendSimpleCommand, lines 677-679
sendSimpleCommand(c, op, method, ids) ==
    /\ c \in created
    /\ Begin(Call(Frame(op, c), "sendCommand",
                  [ZeroCommand EXCEPT !.Method = method,
                                      !.Arguments.Ids = << >> \o ids]))
    /\ UNCHANGED <<created, token, sortType>>

\* StartTorrent, line 431
StartTorrent(c, ids) ==
    /\ pc = "idle"
    /\ sendSimpleCommand(c, "StartTorrent", "torrent-start", ids)

\* StopTorrent, line 436
StopTorrent(c, ids) ==
    /\ pc = "idle"
    /\ sendSimpleCommand(c, "StopTorrent", "torrent-stop", ids)

\* VerifyTorrent, line 441
VerifyTorrent(c, ids) ==
    /\ pc = "idle"
    /\ sendSimpleCommand(c, "VerifyTorrent", "torrent-verify", ids)

\* StartAll, StopAll, VerifyAll, lines 447, 463, 480: the fetch GetTorrents()
StartAll(c) ==
    /\ c \in created
    /\ Begin(Call(Frame("StartAll", c), "ExecuteCommand", NewGetTorrentsCmd))
    /\ UNCHANGED <<created, token, sortType>>

StopAll(c) ==
    /\ c \in created
    /\ Begin(Call(Frame("StopAll", c), "ExecuteCommand", NewGetTorrentsCmd))
    /\ UNCHANGED <<created, token, sortType>>

VerifyAll(c) ==
    /\ c \in created
    /\ Begin(Call(Frame("VerifyAll", c), "ExecuteCommand", NewGetTorrentsCmd))
    /\ UNCHANGED <<created, token, sortType>>

\* ExecuteCommand, lines 629-635, called by the user
ExecuteCommand(c, cmd) ==
    /\ c \in created
    /\ Begin(Call(Frame("ExecuteCommand", c), "ExecuteCommand", cmd))
    /\ UNCHANGED <<created, token, sortType>>

\* ExecuteAddCommand, line 649
ExecuteAddCommand(c, addCmd) ==
    /\ c \in created
    /\ Begin(Call(Frame("ExecuteAddCommand", c), "ExecuteCommand", addCmd))
    /\ UNCHANGED <<created, token, sortType>>

\* Version, lines 670-672
Version(c) ==
    /\ c \in created
    /\ Begin(Call(Frame("Version", c), "sendCommand",
                  [ZeroCommand EXCEPT !.Method = "session-get"]))
    /\ UNCHANGED <<created, token, sortType>>

\* What does not talk to the daemon returns in the same step.
Pure(op, r) ==
    /\ pc = "idle"
    /\ frame' = Frame(op, "")
    /\ sent' = << >>
    /\ answers' = << >>
    /\ posted' = NoPost
    /\ ret' = [r EXCEPT !.op = op]
    /\ UNCHANGED <<created, token, sortType, pc>>

CallNewAddCmd ==
    /\ pc = "idle"
    /\ Pure("NewAddCmd", [NoRet EXCEPT !.cmd = NewAddCmd, !.cmdNil = FALSE])

CallNewAddCmdByURL(url) ==
    /\ pc = "idle"
    /\ Pure("NewAddCmdByURL",
            [NoRet EXCEPT !.cmd = NewAddCmdByURL(url), !.cmdNil = FALSE,
                          !.text = url])

CallNewAddCmdByFilename(filename) ==
    /\ pc = "idle"
    /\ Pure("NewAddCmdByFilename",
            [NoRet EXCEPT !.cmd = NewAddCmdByFilename(filename),
                          !.cmdNil = FALSE, !.text = filename])

CallNewAddCmdByFile(read) ==
    /\ pc = "idle"
    /\ LET g == NewAddCmdByFile(read)
       IN  Pure("NewAddCmdByFile",
                [NoRet EXCEPT !.cmd = g.cmd, !.cmdNil = g.isNil,
                              !.err = g.err, !.bytes = read.data])

CallNewAddCmdByBytes(b) ==
    /\ pc = "idle"
    /\ LET g == NewAddCmdByBytes(b)
       IN  Pure("NewAddCmdByBytes",
                [NoRet EXCEPT !.cmd = g.cmd, !.cmdNil = g.isNil,
                              !.err = g.err, !.bytes = b])

CallIsStarted(ts) ==
    /\ pc = "idle"
    /\ Pure("IsStarted",
            [NoRet EXCEPT !.status = ts, !.started = IsStarted(ts)])

\* The request the daemon has not answered yet.
Pending == sent[Len(sent)]

\* The answers of the current Post call, r being the newest.
Heard(r) == IF pc = "await1" THEN << r >> ELSE Append(answers, r)

\* Post, on a 409 to its first attempt: it stores the session id of the
\* answer and sends the same body again, with the new token.
PostRetry(r) ==
    /\ pc \in {"await1", "await2"}
    /\ PostRetries(pc, r)
    /\ token' = [token EXCEPT ![frame.client] = TokenFrom(@, r)]
    /\ sent' = Append(sent, Request(frame.calls, Pending.attempt + 1,
                                    token'[frame.client], Pending.body))
    /\ answers' = Heard(r)
    /\ pc' = "await2"
    /\ UNCHANGED <<created, sortType, frame, posted, ret>>

\* Post returns, and the operation runs on to its return or its next
\* request.
PostReturn(r) ==
    /\ pc \in {"await1", "await2"}
    /\ ~PostRetries(pc, r)
    /\ LET p == PostResult(r)
           res == IF frame.via = "ExecuteCommand" THEN ExecuteCommandReturn(p)
                                                  ELSE sendCommandReturn(p)
       IN  \E e \in Continue(frame, res, sortType) :
             \E s \in Stops(e, sortType) :
                Apply(s, sent, Heard(r),
                      [called |-> TRUE, output |-> p.output, err |-> p.err])
    /\ UNCHANGED <<created, token, sortType>>

----------------------------------------------------------------------------
(* The specifications.  Every client has a Transport of its own, and the   *)
(* Transports share nothing: Spec follows the conversation of one client   *)
(* with the daemon through every operation that talks to it.  The sort     *)
(* mode is shared by all clients: SortSpec has two clients select it, and  *)
(* follows the operations that read it.  ValueSpec applies the functions   *)
(* that talk to nobody.                                                    *)

DaemonConflict ==
    /\ pc # "idle"
    /\ \E r \in Responses(Pending) : PostRetry(r)

DaemonAnswer ==
    /\ pc # "idle"
    /\ \E r \in Responses(Pending) : PostReturn(r)

Next ==
    \/ New("c1")
    \/ GetTorrents("c1")
    \/ \E id \in CallerIds : GetTorrent("c1", id)
    \/ \E id \in CallerIds, withData \in BOOLEAN :
          DeleteTorrent("c1", id, withData)
    \/ GetStats("c1")
    \/ \E ids \in IdLists : StartTorrent("c1", ids)
    \/ \E ids \in IdLists : StopTorrent("c1", ids)
    \/ \E ids \in IdLists : VerifyTorrent("c1", ids)
    \/ StartAll("c1")
    \/ StopAll("c1")
    \/ VerifyAll("c1")
    \/ \E cmd \in CallerCommands : ExecuteCommand("c1", cmd)
    \/ \E cmd \in AddCommands : ExecuteAddCommand("c1", cmd)
    \/ Version("c1")
    \/ DaemonConflict
    \/ DaemonAnswer

Spec == Init /\ [][Next]_vars

\* Both clients exist, and the daemon asks for no session id.
SortInit ==
    /\ created = Clients
    /\ token = [c \in Clients |-> NoToken]
    /\ sortType = "SortID"
    /\ pc = "idle"
    /\ frame = Frame("", "")
    /\ sent = << >>
    /\ answers = << >>
    /\ posted = NoPost
    /\ ret = NoRet

SortResponses(req) == {r \in Responses(req) : r.status # StatusConflict}

SortDaemonAnswer ==
    /\ pc # "idle"
    /\ \E r \in SortResponses(Pending) : PostReturn(r)

SortNext ==
    \/ \E c \in Clients, st \in SortModes : SetSort(c, st)
    \/ GetTorrents("c1")
    \/ StartAll("c1")
    \/ StopAll("c1")
    \/ VerifyAll("c1")
    \/ SortDaemonAnswer

SortSpec == SortInit /\ [][SortNext]_vars

ValueNext ==
    \/ CallNewAddCmd
    \/ \E s \in Strings : CallNewAddCmdByURL(s)
    \/ \E s \in Strings : CallNewAddCmdByFilename(s)
    \/ \E read \in FileReads : CallNewAddCmdByFile(read)
    \/ \E b \in ByteStrings : CallNewAddCmdByBytes(b)
    \/ \E ts \in StatusValues : CallIsStarted(ts)

ValueSpec == Init /\ [][ValueNext]_vars

----------------------------------------------------------------------------
(* What the claims are stated with.                                        *)

\* The operation op has returned, and nothing has been called since.
Done(op) == pc = "idle" /\ ret.op = op

\* The requests of the k-th Post call of the operation.
CallRequests(k) == SelectSeq(sent, LAMBDA q : q.call = k)

\* The Post call that posted and answers tell of.
LastReturned == IF pc = "idle" THEN frame.calls ELSE frame.calls - 1

\* The command ExecuteCommand / sendCommand hands back for a Post return p,
\* and its error: the transport's, else the decoder's.
CommandError(p) == IF p.err # nil THEN p.err ELSE Unmarshal(p.output).err

\* The envelope a body decodes to.
Envelope(p) == Unmarshal(p.output).val

----------------------------------------------------------------------------
\* C1: a Post call sends its body at most twice.  When the Transport held
\* no token, the first answer was 409 with a session id and the second one
\* (to the same body, sent with that id) was 200, Post returns the body of
\* the 200 answer and no error; when the answer to the retry is not 2xx
\* either (a second 409 included), Post returns a transport error.
C1_Handshake ==
    /\ \A k \in 1 .. frame.calls : Len(CallRequests(k)) <= 2
    /\ (pc \in {"idle", "await1"} /\ posted.called) =>
         LET reqs == CallRequests(LastReturned)
         IN  /\ Len(reqs) = Len(answers)
             /\ answers[1].status = StatusConflict => Len(answers) = 2
             /\ ( /\ Len(answers) = 2
                  /\ reqs[1].token = NoToken
                  /\ answers[1].status = StatusConflict
                  /\ answers[2].status = 200 )
                => /\ reqs[2].token = answers[1].header
                   /\ reqs[2].body = reqs[1].body
                   /\ posted.err = nil
                   /\ posted.output = answers[2].body
             /\ ( /\ Len(answers) = 2
                  /\ answers[1].status = StatusConflict
                  /\ ~(answers[2].status \in 200 .. 299) )
                => posted.err = TransportError

\* The handshake has happened inside ExecuteCommand, which hands the
\* decoded 200 body to its caller.
C1_Witness ==
    /\ Done("ExecuteCommand")
    /\ posted.called /\ Len(answers) = 2
    /\ sent[1].token = NoToken
    /\ answers[1].status = StatusConflict
    /\ answers[2].status = 200
    /\ ret.err = nil
    /\ ret.cmd.Result = "success"

----------------------------------------------------------------------------
\* C2: when the command has executed without error, ExecuteAddCommand
\* returns the torrent-duplicate descriptor of the response if its
\* hashString is not empty, whatever torrent-added holds, and the
\* torrent-added descriptor otherwise; when executing the command failed,
\* it returns the zero descriptor and the error.
C2_AddResult ==
    Done("ExecuteAddCommand") =>
        IF CommandError(posted) = nil
        THEN /\ ret.err = nil
             /\ LET a == Envelope(posted).Arguments
                IN  IF a.TorrentDuplicate.HashString # ""
                    THEN ret.added = a.TorrentDuplicate
                    ELSE ret.added = a.TorrentAdded
        ELSE /\ ret.err = CommandError(posted)
             /\ ret.added = ZeroTorrentAdded

\* The response named a duplicate and an added torrent, and the duplicate
\* was returned.
C2_Witness ==
    /\ Done("ExecuteAddCommand")
    /\ CommandError(posted) = nil
    /\ Envelope(posted).Arguments.TorrentAdded = D1
    /\ Envelope(posted).Arguments.TorrentDuplicate = D2
    /\ ret.added = D2

----------------------------------------------------------------------------
\* C3: GetTorrent(id) sends a torrent-get command whose ids are [id]; an
\* empty torrent list in the response gives ErrNoTorrent and an empty
\* Torrent, a list that is not empty gives its first torrent and no error,
\* and an error of the execution is returned as it is, never as
\* ErrNoTorrent.
C3_GetTorrent ==
    /\ frame.op = "GetTorrent" =>
         \A i \in 1 .. Len(sent) :
            /\ sent[i].body.cmd.Method = "torrent-get"
            /\ sent[i].body.cmd.Arguments.Ids = << frame.id >>
            /\ "ids" \in sent[i].body.keys
    /\ Done("GetTorrent") =>
         /\ posted.called
         /\ IF CommandError(posted) # nil
            THEN /\ ret.err = CommandError(posted)
                 /\ ret.err # ErrNoTorrent
            ELSE LET l == Envelope(posted).Arguments.Torrents
                 IN  IF Len(l) = 0
                     THEN ret.err = ErrNoTorrent /\ ret.torrent = ZeroTorrent
                     ELSE ret.err = nil /\ ret.torrent = l[1]

\* The daemon has answered with an empty list, and with a list of two.
C3_Witness ==
    /\ Done("GetTorrent")
    /\ CommandError(posted) = nil
    /\ Len(Envelope(posted).Arguments.Torrents) = 2
    /\ Envelope(posted).Arguments.Torrents[1] # Envelope(posted).Arguments.Torrents[2]
    /\ ret.torrent = Envelope(posted).Arguments.Torrents[1]

----------------------------------------------------------------------------
\* The key and the direction the name of a sort mode stands for.
ModeKey ==
    [SortID |-> "ID", SortRevID |-> "ID", SortName |-> "Name",
     SortRevName |-> "Name", SortAge |-> "Age", SortRevAge |-> "Age",
     SortSize |-> "Size", SortRevSize |-> "Size", SortProgress |-> "Progress",
     SortRevProgress |-> "Progress", SortDownSpeed |-> "DownSpeed",
     SortRevDownSpeed |-> "DownSpeed", SortUpSpeed |-> "UpSpeed",
     SortRevUpSpeed |-> "UpSpeed", SortDownloaded |-> "Downloaded",
     SortRevDownloaded |-> "Downloaded", SortUploaded |-> "Uploaded",
     SortRevUploaded |-> "Uploaded", SortRatio |-> "Ratio",
     SortRevRatio |-> "Ratio"]

ReverseModes ==
    {"SortRevID", "SortRevName", "SortRevAge", "SortRevSize",
     "SortRevProgress", "SortRevDownSpeed", "SortRevUpSpeed",
     "SortRevDownloaded", "SortRevUploaded", "SortRevRatio"}

\* a and b hold the same torrents, each as often.
IsPerm(a, b) ==
    /\ Len(a) = Len(b)
    /\ \A x \in {a[i] : i \in 1 .. Len(a)} :
          Cardinality({i \in 1 .. Len(a) : a[i] = x})
            = Cardinality({i \in 1 .. Len(b) : b[i] = x})

\* l is non-decreasing by the key of mode st, non-increasing when st is a
\* reverse mode.
Ordered(st, l) ==
    \A i \in 1 .. Len(l) - 1 :
        IF st \in ReverseModes THEN ~KeyLess(ModeKey[st], l[i], l[i + 1])
                                ELSE ~KeyLess(ModeKey[st], l[i + 1], l[i])

\* The torrent list of the response GetTorrents has decoded.
DaemonList == Envelope(posted).Arguments.Torrents

C4_Result ==
    (Done("GetTorrents") /\ ret.err = nil) =>
        /\ CommandError(posted) = nil
        /\ IF sortType = "SortID"
           THEN ret.torrents = DaemonList
           ELSE /\ IsPerm(ret.torrents, DaemonList)
                /\ Ordered(sortType, ret.torrents)

C4_Selected ==
    /\ sortType' \in SortModes
    /\ sortType' # sortType => frame'.op = "SetSort"
    /\ frame'.op = "SetSort" => sortType' = frame'.st

----------------------------------------------------------------------------
PublicOperations ==
    {"New", "GetTorrents", "GetTorrent", "DeleteTorrent", "GetStats",
     "StartTorrent", "StopTorrent", "VerifyTorrent", "StartAll", "StopAll",
     "VerifyAll", "ExecuteCommand", "ExecuteAddCommand", "Version"}

\* The operation that has returned ended on a failure: json.Marshal refused
\* its command (nothing was posted), or its last Post failed, or the body
\* that Post returned did not decode.
Failed ==
    \/ ~posted.called
    \/ CommandError(posted) # nil

\* C5: a public operation in which serialization, Post or deserialization
\* has failed returns an error to its caller.
C5_NoSwallow ==
    (pc = "idle" /\ ret.op \in PublicOperations /\ Failed) => ret.err # nil

----------------------------------------------------------------------------
\* What a base64 text decodes to, four symbols at a time.
RECURSIVE DecodeString(_)
DecodeString(s) ==
    IF Len(s) < 4 THEN << >>
    ELSE IF s[3] = Pad THEN << s[1] * 4 + (s[2] \div 16) >>
    ELSE IF s[4] = Pad THEN
        << s[1] * 4 + (s[2] \div 16), (s[2] % 16) * 16 + (s[3] \div 4) >>
    ELSE
        << s[1] * 4 + (s[2] \div 16), (s[2] % 16) * 16 + (s[3] \div 4),
           (s[3] % 4) * 64 + s[4] >>
        \o DecodeString(SubSeq(s, 5, Len(s)))

\* s is the standard base64 text of the bytes b: four symbols for every
\* three bytes begun, padding only where the last group is short, no bit
\* set that belongs to no byte, and b is what it decodes to.
IsBase64Of(s, b) ==
    LET n == Len(s)
        short == (3 - (Len(b) % 3)) % 3
    IN  /\ n = 4 * ((Len(b) + 2) \div 3)
        /\ \A i \in 1 .. n : s[i] \in 0 .. Pad /\ (s[i] = Pad <=> i > n - short)
        /\ short = 2 => s[n - 2] % 16 = 0
        /\ short = 1 => s[n - 1] % 4 = 0
        /\ DecodeString(s) = b

AddConstructors ==
    {"NewAddCmd", "NewAddCmdByURL", "NewAddCmdByFilename", "NewAddCmdByFile",
     "NewAddCmdByBytes"}

\* C6 as stated: every command an add constructor returns, that of the
\* base NewAddCmd included, has exactly one of filename and metainfo
\* non-empty.
C6_Original ==
    (pc = "idle" /\ ret.op \in AddConstructors /\ ~ret.cmdNil) =>
        /\ ret.cmd.Method = "torrent-add"
        /\ (ret.cmd.Arguments.Filename # "") # (ret.cmd.Arguments.MetaInfo # << >>)

\* C6, amended: every command an add constructor returns has method
\* "torrent-add" and nothing set but filename or metainfo.  NewAddCmd sets
\* neither; the URL and filename variants set filename to the string given
\* and leave metainfo empty; the file and bytes variants set metainfo to
\* the base64 text of the bytes and leave filename empty; so at most one of
\* the two is non-empty, and exactly one when the string or the bytes given
\* are not empty.  When the file cannot be read, NewAddCmdByFile returns the
\* error and no command; otherwise no constructor returns an error.
C6_AddCommands ==
    (pc = "idle" /\ ret.op \in AddConstructors) =>
        LET a == ret.cmd.Arguments
        IN  IF ret.cmdNil
            THEN ret.op = "NewAddCmdByFile" /\ ret.err = ErrReadFile
            ELSE /\ ret.err = nil
                 /\ ret.cmd.Method = "torrent-add"
                 /\ ret.cmd = [ZeroCommand EXCEPT
                                  !.Method = "torrent-add",
                                  !.Arguments.Filename = a.Filename,
                                  !.Arguments.MetaInfo = a.MetaInfo]
                 /\ ret.op = "NewAddCmd" =>
                        a.Filename = "" /\ a.MetaInfo = << >>
                 /\ ret.op \in {"NewAddCmdByURL", "NewAddCmdByFilename"} =>
                        a.Filename = ret.text /\ a.MetaInfo = << >>
                 /\ ret.op \in {"NewAddCmdByFile", "NewAddCmdByBytes"} =>
                        /\ a.Filename = ""
                        /\ IsBase64Of(a.MetaInfo, ret.bytes)
                        /\ (a.MetaInfo # << >>) <=> (ret.bytes # << >>)

\* A file of two bytes has been read and encoded.
C6_Witness ==
    /\ Done("NewAddCmdByFile")
    /\ ret.err = nil /\ ~ret.cmdNil
    /\ ret.bytes = << 77, 255 >>
    /\ ret.cmd.Arguments.MetaInfo = << 19, 31, 60, Pad >>

----------------------------------------------------------------------------
\* C7: IsStarted is true of Checking, DownloadPending, Downloading,
\* SeedPending and Seeding, and false of Stopped, CheckPending and of every
\* value that is none of the seven states.
C7_IsStarted ==
    Done("IsStarted") =>
        (ret.started <=>
            ret.status \in {TrChecking, TrDownloadPending, TrDownloading,
                            TrSeedPending, TrSeeding})

\* IsStarted has answered for Seeding, the last of the states.
C7_Witness ==
    /\ Done("IsStarted")
    /\ ret.status = TrSeeding
    /\ ret.started

----------------------------------------------------------------------------
\* One step of the Transports, as C8 has it.
C8_TokenStep ==
    /\ \A c \in Clients :
          /\ token'[c] # token[c] =>
                /\ c = frame.client
                /\ pc = "await1" /\ pc' = "await2"
                /\ answers'[Len(answers')].status = StatusConflict
                /\ token'[c] = answers'[Len(answers')].header
          /\ token[c] # NoToken => token'[c] # NoToken
    /\ (pc = "await1" /\ pc' = "await2") =>
          /\ answers'[1].status = StatusConflict
          /\ token'[frame.client] = answers'[1].header
          /\ sent'[Len(sent')].attempt = 2
    /\ pc' # "idle" =>
          /\ sent'[Len(sent')].token = token'[frame'.client]
          /\ (pc' = "await1") = (sent'[Len(sent')].attempt = 1)

\* C8: every Transport starts without a token.  The token of a Transport
\* changes only in the step that handles a 409 answer, where it becomes the
\* token of that answer's header, so it is absent until the first 409; once
\* a token is held the Transport is never without one again; and every
\* request, the retry included, carries the token the Transport holds when
\* it is sent, so the first attempt of a Post call carries the token an
\* earlier call obtained.
C8_Token ==
    (\A c \in Clients : token[c] = NoToken) /\ [][C8_TokenStep]_vars

\* The first attempt of a Post call goes out with a token that an earlier
\* call obtained.
C8_Witness ==
    /\ pc = "await1"
    /\ Pending.attempt = 1
    /\ Pending.token \in Tokens
    /\ Pending.token = token[frame.client]

----------------------------------------------------------------------------
\* The command of a request, and the error of a lookup whose command has
\* returned p: that of the command, or not-found for an empty list.
Sent(i) == sent[i].body.cmd

LookupError(p) ==
    IF CommandError(p) # nil THEN CommandError(p)
    ELSE IF Len(Envelope(p).Arguments.Torrents) = 0 THEN ErrNoTorrent
    ELSE nil

C9_State ==
    frame.op = "DeleteTorrent" =>
        /\ frame.calls \in 1 .. 2
        /\ \A i \in 1 .. Len(sent) :
              /\ sent[i].call \in 1 .. frame.calls
              /\ \A j \in i .. Len(sent) : sent[i].call <= sent[j].call
              /\ sent[i].call = 1 =>
                    /\ Sent(i) = [NewGetTorrentsCmd EXCEPT
                                     !.Arguments.Ids = << frame.id >>]
                    /\ "ids" \in sent[i].body.keys
              /\ sent[i].call = 2 =>
                    /\ Sent(i) = [ZeroCommand EXCEPT
                                     !.Method = "torrent-remove",
                                     !.Arguments.Ids = << frame.id >>,
                                     !.Arguments.DeleteData = frame.withData]
                    /\ "ids" \in sent[i].body.keys
                    /\ ("delete-local-data" \in sent[i].body.keys)
                          = frame.withData
        /\ (frame.calls = 2 /\ pc # "idle") =>
              /\ posted.called
              /\ LookupError(posted) = nil
              /\ frame.torrent = Envelope(posted).Arguments.Torrents[1]
        /\ (pc = "idle" /\ frame.calls = 1) =>
              /\ LookupError(posted) # nil
              /\ ret.err = LookupError(posted)
              /\ ret.name = << >>
        /\ (pc = "idle" /\ frame.calls = 2) =>
              IF CommandError(posted) # nil
              THEN ret.err = CommandError(posted) /\ ret.name = << >>
              ELSE ret.err = nil /\ ret.name = frame.torrent.Name

\* The torrent the lookup found stays with the operation until it returns.
C9_Keeps ==
    (frame.op = "DeleteTorrent" /\ frame.calls = 2 /\ pc # "idle") =>
        /\ frame'.torrent = frame.torrent
        /\ frame'.calls = 2

\* C9: DeleteTorrent(id, withData) sends the lookup of GetTorrent(id)
\* first, and torrent-remove requests only after it, in one command with
\* ids [id] and delete-local-data = withData.  When the lookup fails (the
\* command, or not-found) no torrent-remove is sent and the result is the
\* empty name with the lookup's error; when the remove command fails the
\* result is the empty name with its error; otherwise it is the name of
\* the torrent the lookup found.
C9_Delete == [][C9_State' /\ C9_Keeps]_vars

\* A torrent has been looked up and removed with its data, and its name
\* returned.
C9_Witness ==
    /\ Done("DeleteTorrent")
    /\ frame.withData /\ frame.calls = 2
    /\ Sent(Len(sent)).Arguments.DeleteData
    /\ ret.err = nil
    /\ ret.name = << 2, 1 >>

----------------------------------------------------------------------------
BulkMethod ==
    [StartAll |-> "torrent-start", StopAll |-> "torrent-stop",
     VerifyAll |-> "torrent-verify"]

C10_State ==
    frame.op \in DOMAIN BulkMethod =>
        /\ frame.calls \in 1 .. 2
        /\ \A i \in 1 .. Len(sent) :
              /\ sent[i].call \in 1 .. frame.calls
              /\ \A j \in i .. Len(sent) : sent[i].call <= sent[j].call
              /\ sent[i].call = 1 => Sent(i) = NewGetTorrentsCmd
              /\ sent[i].call = 2 =>
                    /\ Sent(i).Method = BulkMethod[frame.op]
                    /\ Len(Sent(i).Arguments.Ids) = Len(frame.torrents)
                    /\ \A k \in 1 .. Len(frame.torrents) :
                          Sent(i).Arguments.Ids[k] = frame.torrents[k].InfoHash
                    /\ Sent(i) = [ZeroCommand EXCEPT
                                     !.Method = Sent(i).Method,
                                     !.Arguments.Ids = Sent(i).Arguments.Ids]
                    /\ ("ids" \in sent[i].body.keys) = (frame.torrents # << >>)
        /\ (frame.calls = 2 /\ pc # "idle") =>
              /\ posted.called
              /\ CommandError(posted) = nil
              /\ IsPerm(frame.torrents, DaemonList)
              /\ IF sortType = "SortID"
                 THEN frame.torrents = DaemonList
                 ELSE Ordered(sortType, frame.torrents)
        /\ (pc = "idle" /\ frame.calls = 1) =>
              /\ CommandError(posted) # nil
              /\ ret.err = CommandError(posted)
        /\ (pc = "idle" /\ frame.calls = 2) => ret.err = CommandError(posted)

\* The list fetched stays with the operation until it returns.
C10_Keeps ==
    (frame.op \in DOMAIN BulkMethod /\ frame.calls = 2 /\ pc # "idle") =>
        /\ frame'.torrents = frame.torrents
        /\ frame'.calls = 2

----------------------------------------------------------------------------
\* The operations that hand the result of ExecuteCommand or of sendCommand
\* to their caller as it is.
ThroughExecuteCommand == {"ExecuteCommand"}
ThroughSendCommand == {"New", "StartTorrent", "StopTorrent", "VerifyTorrent"}

C11_State ==
    frame.op \in PublicOperations =>
        /\ frame.calls = frame.invoked - frame.refused
        /\ \A i \in 1 .. Len(sent) : sent[i].call \in 1 .. frame.calls
        /\ \A k \in 1 .. frame.calls : Len(CallRequests(k)) >= 1
        /\ (pc = "idle" /\ frame.refused > 0) =>
              /\ ~posted.called /\ sent = << >>
              /\ ret.err = ErrMarshal
        /\ (pc = "idle" /\ posted.called /\ posted.err # nil) =>
              /\ ret.op \in ThroughExecuteCommand =>
                    ret.err = posted.err /\ ret.cmd = ZeroCommand
              /\ ret.op \in ThroughSendCommand =>
                    ret.err = posted.err /\ ret.result = ""
              /\ ret.op \in PublicOperations \ {"Version"} =>
                    ret.err = posted.err

\* What one step adds: an operation that starts has made no invocation yet.
C11_Step ==
    LET old == IF pc = "idle" THEN Frame("", "") ELSE frame
        posts == frame'.calls - old.calls
        begun == frame'.invoked - old.invoked
        refusals == frame'.refused - old.refused
        log == IF pc = "idle" THEN << >> ELSE sent
    IN  /\ begun \in {0, 1}
        /\ refusals \in {0, 1}
        /\ posts = begun - refusals
        /\ posts \in {0, 1}
        /\ posts = 1 =>
              /\ pc' = "await1"
              /\ sent' = Append(log, sent'[Len(sent')])
              /\ sent'[Len(sent')].call = frame'.calls
              /\ sent'[Len(sent')].attempt = 1
              /\ sent'[Len(sent')].body.kind = "json"
        /\ (posts = 0 /\ pc' # "await2") => sent' = log
        /\ pc' = "await2" => begun = 0

\* C11: an invocation of ExecuteCommand or of sendCommand calls Post once
\* when json.Marshal has encoded the command and not at all when it has
\* not, and never again whatever Post returns: the Post calls of an
\* operation are as many as its invocations that encoded their command.
\* When Post returns an error, the invocation returns that error and a
\* command in which nothing is decoded.
C11_NoRetry == [][C11_State' /\ C11_Step]_vars

\* The Transport has retried after a 409 and failed; ExecuteCommand has
\* returned its error after that one Post call.
C11_Witness ==
    /\ Done("ExecuteCommand")
    /\ frame.invoked = 1 /\ frame.calls = 1
    /\ Len(answers) = 2
    /\ posted.called /\ posted.err = TransportError
    /\ ret.err = TransportError
    /\ ret.cmd = ZeroCommand

====
